---- MODULE Spec2Model ----
(***************************************************************************)
(* Model of the lightecho-stellar-oracle batch feeder                      *)
(* (cli/scripts/feed_bulk_from_db.py) and of the transaction poll loops of *)
(* the example CLI (examples/price_up_down/cli/cli.py).                    *)
(*                                                                         *)
(* Four state machines share the module, under these specifications:      *)
(*   Spec          the batch feeder against the prices table               *)
(*   NormalizeSpec normalize_timestamp as a pure function                  *)
(*   WaitSpec      wait_tx and the two inline poll loops of deploy         *)
(*   FairWaitSpec  WaitSpec with the network eventually answering          *)
(*   InvokeSpec    invoke_and_output: send, wait, check, decode, exit      *)
(***************************************************************************)
EXTENDS Integers, Sequences, FiniteSets, TLC

VARIABLES
    \* ---- normalize_timestamp as a pure function ----
    npc,        \* "input" | "once" | "twice"
    nt,         \* the timestamp handed to normalize_timestamp
    n1,         \* normalize_timestamp(nt, RESOLUTION)
    n2,         \* normalize_timestamp(n1, RESOLUTION)
    \* ---- the batch feeder (feed_bulk_from_db.py) ----
    now,            \* the wall clock, int(datetime.now().timestamp())
    prices_tbl,     \* table prices, in insertion (id) order
    logs_tbl,       \* table feed_bulk_from_db_logs, in insertion order
    pc,             \* position of the feeder process
    fetched,        \* the rows of cursor.fetchall(), in query order
    fi,             \* number of rows of fetched the loop has iterated
    prices,         \* read_prices_from_db: the batch built so far
    symbols,        \* read_prices_from_db: source -> symbols already kept
    xlm_based_prices,
    usd_based_prices,
    source_symbols, \* add_prices_to_blockchain: <<source, symbols>> in dict order
    cmd,            \* the command of the invocation in progress
    success,        \* run_cli's result: the success flag ...
    output,         \* ... and the captured output
    inflight,       \* number of CLI subprocesses running
    calls,          \* history: every finished invocation <<command, success, output>>
    result,         \* history: what each group's invocation reported in this run
    markOps,        \* history: the UPDATEs issued by this run
    sentIds,        \* history: ids of rows submitted with success by earlier runs
    error,          \* the exception that ended the last run, or "none"
    runs,           \* number of feeder runs started
    \* ---- the poll loops of the example CLI (cli.py) ----
    wloop,      \* the loop running: "wait_tx", "deploy_upload", "deploy_create"
    wpc,        \* "poll" | "sleep" | "returned" | "AssertionError"
    tx_hash,    \* the transaction waited for
    asked,      \* the hash of the last get_transaction request
    status,     \* get_transaction_data.status of the last poll
    prior,      \* history: an earlier poll of this loop was not NOT_FOUND
    polls,      \* polls made by this loop (counted up to MaxPolls)
    sleeps,     \* sleeps made by this loop (counted up to MaxPolls)
    slept,      \* seconds slept by this loop (counted up to 3 * MaxPolls)
    ret,        \* the status the loop returned, or "none"
    \* ---- invoke_and_output of the example CLI (cli.py) ----
    ipc,        \* "send" | "wait" | "output" | "tail" | "exited"
    result_val, \* the contract's return value (an SCVal) in the transaction meta
    printed,    \* what the process printed, in order
    raised,     \* the exception that ended the process, or "none"
    exit_code   \* the exit code of the process, -1 while it runs

nvars == <<npc, nt, n1, n2>>

dbvars == <<prices_tbl, logs_tbl>>

fvars == <<pc, fetched, fi, prices, symbols, xlm_based_prices, usd_based_prices,
           source_symbols, cmd, success, output, inflight, calls, result,
           markOps, sentIds, error, runs>>

wvars == <<wloop, wpc, tx_hash, asked, status, prior, polls, sleeps, slept, ret>>

ivars == <<ipc, result_val, printed, raised, exit_code>>

\* the variables of the example CLI
cvars == <<wvars, ivars>>

vars == <<nvars, now, dbvars, fvars, cvars>>

\* feed_bulk_from_db.py:15
RESOLUTION == 600

(***************************************************************************)
(* Python integers are unbounded and `/` is true division: the quotient is *)
(* the IEEE-754 double nearest to the exact quotient (round half to even, *)
(* 53 significant bits).  A timestamp is kept as                           *)
(*      (man * 2^exp + add) * resolution + rem                             *)
(* so that values beyond TLC's 32-bit integers can be written.             *)
(* With exp = 0 this is the ordinary integer (man + add) * resolution+rem. *)
(***************************************************************************)
MaxMan == 3
MaxExp == 54
DoubleBits == 53

RECURSIVE BitLen(_)
BitLen(n) == IF n = 0 THEN 0 ELSE 1 + BitLen(n \div 2)

RECURSIVE Pow2(_)
Pow2(n) == IF n = 0 THEN 1 ELSE 2 * Pow2(n - 1)

\* bit length of the integer quotient man * 2^exp + add
QuotBitLen(t) ==
    IF t.man = 0 THEN BitLen(t.add)
    ELSE IF t.exp = 0 THEN BitLen(t.man + t.add)
    ELSE BitLen(t.man) + t.exp

QuotEven(t) ==
    IF t.exp = 0 \/ t.man = 0 THEN (t.man + t.add) % 2 = 0 ELSE t.add % 2 = 0

TsOf(i, r) == [man |-> i \div r, exp |-> 0, add |-> 0, rem |-> i % r]
IntOf(t, r) == (t.man * Pow2(t.exp) + t.add) * r + t.rem

\* math.ceil(t / r) - t // r: 1 when the double nearest to the exact quotient
\* lies above the integer quotient, 0 when the fraction rem / r is exact zero
\* or is rounded away (it is below half a unit in the last place of the
\* quotient, or exactly half with an even significand).
CeilExcess(t, r) ==
    LET L == QuotBitLen(t)
        s == DoubleBits + 1 - L     \* rem / r < 2^-s  <=>  the fraction is lost
    IN  IF t.rem = 0 THEN 0
        ELSE IF L = 0 THEN 1
        ELSE IF s <= 0 THEN 0
        ELSE IF s > 20 THEN 1       \* rem >= 1 and r < 2^20
        ELSE IF t.rem * Pow2(s) < r THEN 0
        ELSE IF t.rem * Pow2(s) > r THEN 1
        ELSE IF s >= 2 \/ QuotEven(t) THEN 0 ELSE 1

\* normalize_timestamp(unnormalized_timestamp, resolution):
\*     math.ceil(unnormalized_timestamp / resolution) * resolution
normalize_timestamp(t, r) ==
    [man |-> t.man, exp |-> t.exp, add |-> t.add + CeilExcess(t, r), rem |-> 0]

\* normalize_timestamp on a machine-sized integer, as the feeder calls it
normalize_int(i, r) == IntOf(normalize_timestamp(TsOf(i, r), r), r)

\* order and difference of two timestamps over the same man * 2^exp
TsOffset(t, r) == t.add * r + t.rem
TsGeq(a, b, r) == TsOffset(a, r) >= TsOffset(b, r)
TsDiff(a, b, r) == TsOffset(a, r) - TsOffset(b, r)

NoTs == [man |-> 0, exp |-> 0, add |-> 0, rem |-> 0]

TsInputs ==
    { [man |-> m, exp |-> e, add |-> 0, rem |-> f] :
        m \in 1..MaxMan, e \in 0..MaxExp, f \in 0..(RESOLUTION - 1) }
    \cup { [man |-> 0, exp |-> 0, add |-> 0, rem |-> f] : f \in 0..(RESOLUTION - 1) }

(***************************************************************************)
(* The batch feeder.  The prices table is written by an external pricing   *)
(* pipeline (InsertPrice) and read and updated by the feeder; the feeder   *)
(* is one process whose steps are separated by its database transactions   *)
(* and by the CLI subprocesses it waits for.                               *)
(***************************************************************************)
MaxRows == 2        \* rows the pricing pipeline inserts
MaxSource == 2      \* data sources 1..MaxSource
MaxBuckets == 2     \* the clock runs over the first MaxBuckets resolution buckets
MaxRuns == 2        \* feeder runs

Sources == 1..MaxSource
Symbols == {"AAA", "BBB"}
SellAssets == {"XLM", "USD", "EUR"}
BuyAssets == {"BTC"}
\* the price quoted by the k-th inserted row (decimal strings)
PriceList == <<"1.00", "2.50", "3.75", "4.20">>
PriceOf(id) == PriceList[((id - 1) % Len(PriceList)) + 1]
\* (status, asset_type) of an inserted row
RowKinds == {<<"active", "other">>, <<"inactive", "other">>, <<"active", "stellar">>}
\* clock readings: the last second of each bucket and the aligned second after it
ClockValues == { k * RESOLUTION + d : k \in 1..MaxBuckets, d \in {-1, 0} }

\* lightecho_stellar_oracle.TESTNET_CONTRACT_XLM / TESTNET_CONTRACT_USD
TESTNET_CONTRACT_XLM == "TESTNET_CONTRACT_XLM"
TESTNET_CONTRACT_USD == "TESTNET_CONTRACT_USD"

Range(s) == { s[i] : i \in DOMAIN s }

\* SELECT ... WHERE status = 'active' AND asset_type = 'other'
\*              AND added_to_blockchain = 0
SelectedAll(tbl) == { r \in Range(tbl) : r.status = "active" /\ r.asset_type = "other" }
Selected(tbl) ==
    { r \in Range(tbl) :
        r.status = "active" /\ r.asset_type = "other" /\ r.added_to_blockchain = 0 }

\* ... ORDER BY updated_at DESC: every order of the selected rows that is
\* descending in updated_at (rows of equal updated_at come in any order)
QueryResults(tbl) ==
    LET sel == Selected(tbl)
        n == Cardinality(sel)
    IN  { s \in [1..n -> sel] :
            /\ \A i, j \in 1..n : i < j => s[i] # s[j]
            /\ \A i, j \in 1..n : i < j => s[i].updated_at >= s[j].updated_at }

\* the dict `symbols`: a function from the sources seen to their symbol lists
HasKey(d, k) == k \in DOMAIN d
SetDefault(d, k) == IF HasKey(d, k) THEN d ELSE (k :> <<>>) @@ d
InList(x, l) == \E i \in DOMAIN l : l[i] = x

\* one iteration of the for loop of read_prices_from_db (lines 165-177) on
\* row r with the clock reading t: <<prices, symbols>> after it
KeepAlways(r, t) == TRUE
KeepRow(r, t) == normalize_int(t, RESOLUTION) <= t
SeenBefore(r, syms) == InList(r.symbol, syms[r.source])

LoopBody(ps, syms, r, t) ==
    LET syms1 == SetDefault(syms, r.source)
        result_dict ==
            [id |-> r.id, updated_at |-> r.updated_at, source |-> r.source,
             symbol |-> r.symbol, price |-> r.price, sell_asset |-> r.sell_asset,
             buy_asset |-> r.buy_asset,
             normalized_timestamp |-> normalize_int(t, RESOLUTION)]
    IN  IF SeenBefore(r, syms1) THEN <<ps, syms1>>
        ELSE IF KeepRow(r, t)
             THEN <<Append(ps, result_dict),
                    [syms1 EXCEPT ![r.source] = Append(@, r.symbol)]>>
             ELSE <<ps, syms1>>

\* the dict source_symbols as a sequence of <<source, symbols>> in insertion order
RECURSIVE DictAppend(_, _, _)
DictAppend(d, k, v) ==
    IF d = <<>> THEN << <<k, <<v>> >> >>
    ELSE IF Head(d)[1] = k THEN << <<k, Append(Head(d)[2], v)>> >> \o Tail(d)
    ELSE <<Head(d)>> \o DictAppend(Tail(d), k, v)

parsed_price(price) ==
    [source |-> price.source, asset_type |-> "other", asset |-> price.buy_asset,
     price |-> price.price, timestamp |-> price.normalized_timestamp]

\* the if / elif / else of lines 116-121: the list the row goes to, or "raise"
SellGroupAllXlm(sell_asset) == "XLM"
SellGroupElseUsd(sell_asset) == IF sell_asset = "XLM" THEN "XLM" ELSE "USD"
SellGroup(sell_asset) ==
    IF sell_asset = "XLM" THEN "XLM"
    ELSE IF sell_asset = "USD" THEN "USD"
    ELSE "raise"

\* the for loop of add_prices_to_blockchain (lines 107-121): the state
\* [xlm, usd, ss, raised] after the rows ps[i..], from the state acc
RECURSIVE GroupLoop(_, _, _)
GroupLoop(ps, i, acc) ==
    IF i > Len(ps) \/ acc.raised THEN acc
    ELSE LET price == ps[i]
             ss1 == DictAppend(acc.ss, price.source, price.symbol)
         IN  IF SellGroup(price.sell_asset) = "XLM"
             THEN GroupLoop(ps, i + 1,
                    [acc EXCEPT !.ss = ss1, !.xlm = Append(@, parsed_price(price))])
             ELSE IF SellGroup(price.sell_asset) = "USD"
             THEN GroupLoop(ps, i + 1,
                    [acc EXCEPT !.ss = ss1, !.usd = Append(@, parsed_price(price))])
             ELSE [acc EXCEPT !.ss = ss1, !.raised = TRUE]

Grouped(ps) == GroupLoop(ps, 1, [xlm |-> <<>>, usd |-> <<>>, ss |-> <<>>, raised |-> FALSE])

\* json.dumps, utf-8, base64
list_to_base64(data_list) == <<"base64", <<"json", data_list>> >>

Command(contract, group) ==
    [contract |-> contract, op |-> "add_prices_base64", arg |-> list_to_base64(group)]

NoCmd == [contract |-> "none", op |-> "none", arg |-> <<>>]
NoResult == [XLM |-> "none", USD |-> "none"]

\* UPDATE prices SET added_to_blockchain = 1 WHERE source = ? AND symbol IN (...)
UpdateMarked(tbl, source, syms) ==
    [i \in DOMAIN tbl |->
        IF tbl[i].source = source /\ InList(tbl[i].symbol, syms)
        THEN [tbl[i] EXCEPT !.added_to_blockchain = 1]
        ELSE tbl[i]]

FeederIdle ==
    /\ now = RESOLUTION - 1
    /\ prices_tbl = <<>>
    /\ logs_tbl = <<>>
    /\ pc = "idle"
    /\ fetched = <<>>
    /\ fi = 0
    /\ prices = <<>>
    /\ symbols = <<>>
    /\ xlm_based_prices = <<>>
    /\ usd_based_prices = <<>>
    /\ source_symbols = <<>>
    /\ cmd = NoCmd
    /\ success = FALSE
    /\ output = "none"
    /\ inflight = 0
    /\ calls = <<>>
    /\ result = NoResult
    /\ markOps = <<>>
    /\ sentIds = {}
    /\ error = "none"
    /\ runs = 0

NormalizeIdle ==
    /\ npc = "input"
    /\ nt = NoTs
    /\ n1 = NoTs
    /\ n2 = NoTs

\* no poll loop of the example CLI is running
WaitIdle ==
    /\ wloop = "none"
    /\ wpc = "idle"
    /\ tx_hash = "none"
    /\ asked = "none"
    /\ status = "none"
    /\ prior = FALSE
    /\ polls = 0
    /\ sleeps = 0
    /\ slept = 0
    /\ ret = "none"

NoVal == [type |-> "none", kids |-> <<>>, keys |-> <<>>]

\* no invoke_and_output is running
InvokeIdle ==
    /\ ipc = "idle"
    /\ result_val = NoVal
    /\ printed = <<>>
    /\ raised = "none"
    /\ exit_code = -1

Init == FeederIdle /\ NormalizeIdle /\ WaitIdle /\ InvokeIdle

\* the wall clock advances
Tick ==
    /\ \E t \in ClockValues : t > now /\ now' = t
    /\ UNCHANGED <<nvars, cvars, dbvars, fvars>>

\* the pricing pipeline inserts a row, unsent, stamped with the clock
InsertPrice ==
    /\ Len(prices_tbl) < MaxRows
    /\ \E src \in Sources, sym \in Symbols, sell \in SellAssets, buy \in BuyAssets,
          kind \in RowKinds :
         prices_tbl' = Append(prices_tbl,
            [id |-> Len(prices_tbl) + 1, updated_at |-> now, source |-> src,
             symbol |-> sym, price |-> PriceOf(Len(prices_tbl) + 1), sell_asset |-> sell, buy_asset |-> buy,
             status |-> kind[1], asset_type |-> kind[2], added_to_blockchain |-> 0])
    /\ UNCHANGED <<nvars, cvars, now, logs_tbl, fvars>>

\* read_prices_from_db, lines 161-164: a run starts, the query is executed
ReadQuery ==
    /\ pc = "idle"
    /\ runs < MaxRuns
    /\ runs' = runs + 1
    /\ \E s \in QueryResults(prices_tbl) : fetched' = s
    /\ fi' = 0
    /\ prices' = <<>>
    /\ symbols' = <<>>
    /\ xlm_based_prices' = <<>>
    /\ usd_based_prices' = <<>>
    /\ source_symbols' = <<>>
    /\ result' = NoResult
    /\ markOps' = <<>>
    /\ error' = "none"
    /\ pc' = "loop"
    /\ UNCHANGED <<nvars, cvars, now, dbvars, cmd, success, output, inflight, calls, sentIds>>

\* read_prices_from_db, lines 165-177: one iteration of the loop
LoopRow ==
    /\ pc = "loop"
    /\ fi < Len(fetched)
    /\ LET after == LoopBody(prices, symbols, fetched[fi + 1], now)
       IN  /\ prices' = after[1]
           /\ symbols' = after[2]
    /\ fi' = fi + 1
    /\ UNCHANGED <<nvars, cvars, now, dbvars, pc, fetched, xlm_based_prices, usd_based_prices,
                   source_symbols, cmd, success, output, inflight, calls, result,
                   markOps, sentIds, error, runs>>

\* read_prices_from_db, lines 178-179: nothing to feed
NoNewPrices ==
    /\ pc = "loop"
    /\ fi = Len(fetched)
    /\ Len(prices) = 0
    /\ pc' = "idle"
    /\ UNCHANGED <<nvars, cvars, now, dbvars, fetched, fi, prices, symbols, xlm_based_prices,
                   usd_based_prices, source_symbols, cmd, success, output, inflight,
                   calls, result, markOps, sentIds, error, runs>>

\* add_prices_to_blockchain, lines 104-121, all sell assets known
GroupPrices ==
    /\ pc = "loop"
    /\ fi = Len(fetched)
    /\ Len(prices) # 0
    /\ ~Grouped(prices).raised
    /\ xlm_based_prices' = Grouped(prices).xlm
    /\ usd_based_prices' = Grouped(prices).usd
    /\ source_symbols' = Grouped(prices).ss
    /\ pc' = "xlm"
    /\ UNCHANGED <<nvars, cvars, now, dbvars, fetched, fi, prices, symbols, cmd, success, output,
                   inflight, calls, result, markOps, sentIds, error, runs>>

ValueError == "ValueError: Unexpected price sell_asset"

\* add_prices_to_blockchain, line 121: raise ValueError; the exception leaves
\* read_prices_from_db through cursor_ctx and ends the process
UnexpectedSellAsset ==
    /\ pc = "loop"
    /\ fi = Len(fetched)
    /\ Len(prices) # 0
    /\ Grouped(prices).raised
    /\ error' = ValueError
    /\ pc' = "idle"
    /\ UNCHANGED <<nvars, cvars, now, dbvars, fetched, fi, prices, symbols, xlm_based_prices,
                   usd_based_prices, source_symbols, cmd, success, output, inflight,
                   calls, result, markOps, sentIds, runs>>

Groups == {"XLM", "USD"}
PcCall == [XLM |-> "xlm", USD |-> "usd"]
PcWait == [XLM |-> "xlm_wait", USD |-> "usd_wait"]
PcLog == [XLM |-> "xlm_log", USD |-> "usd_log"]
PcAfter == [XLM |-> "usd", USD |-> "mark"]
ContractOfXlmOnly == [XLM |-> TESTNET_CONTRACT_XLM, USD |-> TESTNET_CONTRACT_XLM]
ContractOf == [XLM |-> TESTNET_CONTRACT_XLM, USD |-> TESTNET_CONTRACT_USD]
GroupOf(g) == IF g = "XLM" THEN xlm_based_prices ELSE usd_based_prices

\* add_prices_to_blockchain, lines 122-125 and 128-131: a non-empty group is
\* handed to the CLI subprocess (run_cli, subprocess.check_output)
RunCliStart(g) ==
    /\ pc = PcCall[g]
    /\ GroupOf(g) # <<>>
    /\ cmd' = Command(ContractOf[g], GroupOf(g))
    /\ inflight' = inflight + 1
    /\ pc' = PcWait[g]
    /\ UNCHANGED <<nvars, cvars, now, dbvars, fetched, fi, prices, symbols, xlm_based_prices,
                   usd_based_prices, source_symbols, success, output, calls, result,
                   markOps, sentIds, error, runs>>

\* lines 122 and 128: an empty group is not submitted
SkipGroup(g) ==
    /\ pc = PcCall[g]
    /\ GroupOf(g) = <<>>
    /\ pc' = PcAfter[g]
    /\ UNCHANGED <<nvars, cvars, now, dbvars, fetched, fi, prices, symbols, xlm_based_prices,
                   usd_based_prices, source_symbols, cmd, success, output, inflight,
                   calls, result, markOps, sentIds, error, runs>>

\* run_cli returns (True, output) or, on CalledProcessError, (False, e.output)
RunCliReturn(g) ==
    /\ pc = PcWait[g]
    /\ \E ok \in BOOLEAN :
        /\ success' = ok
        /\ output' = IF ok THEN "Success!" ELSE "Error"
        /\ result' = [result EXCEPT ![g] = IF ok THEN "ok" ELSE "fail"]
        /\ calls' = Append(calls,
              [command |-> cmd, output |-> IF ok THEN "Success!" ELSE "Error",
               success |-> ok])
    /\ inflight' = inflight - 1
    /\ pc' = PcLog[g]
    /\ UNCHANGED <<nvars, cvars, now, dbvars, fetched, fi, prices, symbols, xlm_based_prices,
                   usd_based_prices, source_symbols, cmd, markOps, sentIds, error, runs>>

\* log_result_to_db(cmd, success, output): INSERT INTO feed_bulk_from_db_logs
LogInsertIfSuccess(tbl, c, s, o) ==
    IF s THEN Append(tbl, [command |-> c, output |-> o, success |-> s]) ELSE tbl
LogInsert(tbl, c, s, o) == Append(tbl, [command |-> c, output |-> o, success |-> s])

LogResult(g) ==
    /\ pc = PcLog[g]
    /\ logs_tbl' = LogInsert(logs_tbl, cmd, success, output)
    /\ pc' = PcAfter[g]
    /\ UNCHANGED <<nvars, cvars, now, prices_tbl, fetched, fi, prices, symbols, xlm_based_prices,
                   usd_based_prices, source_symbols, cmd, success, output, inflight,
                   calls, result, markOps, sentIds, error, runs>>

\* add_prices_to_blockchain, lines 134-135: which entries of source_symbols
\* are marked after the invocations reported `res`
MarkEntry(entry, res) == TRUE

\* one iteration of the loop of lines 134-135:
\* mark_symbols_as_added_to_blockchain(source, symbols)
MarkSymbols ==
    /\ pc = "mark"
    /\ Len(markOps) < Len(source_symbols)
    /\ LET entry == source_symbols[Len(markOps) + 1]
       IN  /\ prices_tbl' = IF MarkEntry(entry, result)
                            THEN UpdateMarked(prices_tbl, entry[1], entry[2])
                            ELSE prices_tbl
           /\ markOps' = Append(markOps,
                [source |-> entry[1], symbols |-> entry[2],
                 ids |-> { r.id : r \in Range(prices_tbl) }])
    /\ UNCHANGED <<nvars, cvars, now, logs_tbl, pc, fetched, fi, prices, symbols,
                   xlm_based_prices, usd_based_prices, source_symbols, cmd, success,
                   output, inflight, calls, result, sentIds, error, runs>>

\* history: the ids of the rows that an UPDATE of this run covered for a pair
\* whose group's invocation reported success
SentBy(tbl, batch, res, ops) ==
    { r.id : r \in
        { x \in Range(tbl) :
            /\ \E i \in DOMAIN ops :
                  /\ x.id \in ops[i].ids
                  /\ x.source = ops[i].source
                  /\ InList(x.symbol, ops[i].symbols)
            /\ \E p \in Range(batch) :
                  /\ p.source = x.source
                  /\ p.symbol = x.symbol
                  /\ res[p.sell_asset] = "ok" } }

\* add_prices_to_blockchain and read_prices_from_db return: the run is over
FinishRun ==
    /\ pc = "mark"
    /\ Len(markOps) = Len(source_symbols)
    /\ sentIds' = sentIds \cup SentBy(prices_tbl, prices, result, markOps)
    /\ pc' = "idle"
    /\ UNCHANGED <<nvars, cvars, now, dbvars, fetched, fi, prices, symbols, xlm_based_prices,
                   usd_based_prices, source_symbols, cmd, success, output, inflight,
                   calls, result, markOps, error, runs>>

Next ==
    \/ Tick
    \/ InsertPrice
    \/ ReadQuery
    \/ LoopRow
    \/ NoNewPrices
    \/ GroupPrices
    \/ UnexpectedSellAsset
    \/ \E g \in Groups : RunCliStart(g)
    \/ \E g \in Groups : SkipGroup(g)
    \/ \E g \in Groups : RunCliReturn(g)
    \/ \E g \in Groups : LogResult(g)
    \/ MarkSymbols
    \/ FinishRun

Spec == Init /\ [][Next]_vars

(***************************************************************************)
(* Properties of the batch feeder                                          *)
(***************************************************************************)
RowById(id) == CHOOSE r \in Range(prices_tbl) : r.id = id
Submitted == {"xlm_wait", "xlm_log", "usd", "usd_wait", "usd_log", "mark"}
AfterGrouping == {"xlm"} \cup Submitted

\* C1: a (source, symbol) pair is marked added_to_blockchain = 1 only if the
\* invocation that submitted its group reported success: once the run is over,
\* the rows of a group whose invocation reported failure still have
\* added_to_blockchain = 0 (and so are re-read by the next run).
C1_MarkedOnlyOnSuccess ==
    (pc = "idle" /\ error = "none") =>
        \A p \in Range(prices) :
            (p.sell_asset \in Groups /\ result[p.sell_asset] = "fail")
                => RowById(p.id).added_to_blockchain = 0

\* C2: after a run in which a group's submission reported success, every
\* pair of that group is marked sent by exactly one UPDATE of the run, and no
\* row the UPDATE covered is selected by a later read or put in a later batch.
C2_SuccessMarkedOnceAndExcluded ==
    /\ (pc = "idle" /\ error = "none") =>
          \A p \in Range(prices) :
              (p.sell_asset \in Groups /\ result[p.sell_asset] = "ok") =>
                  /\ RowById(p.id).added_to_blockchain = 1
                  /\ p.id \in sentIds
                  /\ Cardinality({ i \in DOMAIN markOps :
                        /\ markOps[i].source = p.source
                        /\ InList(p.symbol, markOps[i].symbols) }) = 1
                  /\ \A i \in DOMAIN markOps :
                        Cardinality({ j \in DOMAIN markOps[i].symbols :
                            /\ markOps[i].source = p.source
                            /\ markOps[i].symbols[j] = p.symbol }) <= 1
    /\ \A id \in sentIds : RowById(id).added_to_blockchain = 1
    /\ pc # "idle" =>
          /\ \A r \in Range(fetched) : r.id \notin sentIds
          /\ \A p \in Range(prices) : p.id \notin sentIds

\* a second run reads after a first run marked rows of a successful group,
\* and still finds rows to iterate
C2_Witness ==
    /\ runs = 2
    /\ pc = "loop"
    /\ sentIds # {}
    /\ fetched # <<>>

\* C3: every CLI invocation, successful or not, appends exactly one row to
\* feed_bulk_from_db_logs with its command, success flag and output; rows are
\* never changed or removed; when no invocation is awaiting its log write the
\* number of rows equals the number of invocations made.
C3_LogAppendOnlyOnePerInvocation ==
    [][ /\ Len(logs_tbl') >= Len(logs_tbl)
        /\ SubSeq(logs_tbl', 1, Len(logs_tbl)) = logs_tbl
        /\ Len(logs_tbl') <= Len(calls')
        /\ logs_tbl' = SubSeq(calls', 1, Len(logs_tbl'))
        /\ (pc' \notin {"xlm_wait", "xlm_log", "usd_wait", "usd_log"}
              => (inflight' = 0 /\ logs_tbl' = calls'))
        /\ (pc' \in {"xlm_wait", "usd_wait"}
              => (inflight' = 1 /\ logs_tbl' = calls'))
        /\ (pc' \in {"xlm_log", "usd_log"}
              => (inflight' = 0 /\ Len(calls') = Len(logs_tbl') + 1))
      ]_vars

\* a failed and a successful invocation have both been logged
C3_Witness ==
    /\ Len(logs_tbl) >= 2
    /\ \E i \in DOMAIN logs_tbl : ~logs_tbl[i].success
    /\ \E i \in DOMAIN logs_tbl : logs_tbl[i].success
    /\ logs_tbl = calls

FirstOfPair(rows, r) ==
    \A j \in DOMAIN rows :
        (rows[j].source = r.source /\ rows[j].symbol = r.symbol)
            => \E i \in 1..j : rows[i].id = r.id

\* C4: the batch holds at most one row per (source, symbol) pair, and that
\* row is the first row of the pair in query order, also when the clock
\* advances while the rows are processed.
C4_KeepsFirstOfPair ==
    /\ \A i, j \in DOMAIN prices :
          (prices[i].source = prices[j].source /\ prices[i].symbol = prices[j].symbol)
              => i = j
    /\ \A p \in Range(prices) : FirstOfPair(fetched, p)

IsXLM(p) == p.sell_asset = "XLM"
IsUSD(p) == p.sell_asset = "USD"
ParsedSeq(ps) == [i \in DOMAIN ps |-> parsed_price(ps[i])]

\* C5: a batch whose rows all have sell_asset XLM or USD is split into the
\* XLM group and the USD group: each row of the batch is in exactly the group
\* of its sell_asset, none is lost or added, input order is kept in each group.
C5_PartitionBySellAsset ==
    pc \in AfterGrouping =>
        /\ xlm_based_prices = ParsedSeq(SelectSeq(prices, IsXLM))
        /\ usd_based_prices = ParsedSeq(SelectSeq(prices, IsUSD))
        /\ Len(xlm_based_prices) + Len(usd_based_prices) = Len(prices)

\* a mixed batch has been split
C5_Witness ==
    /\ pc \in AfterGrouping
    /\ Len(xlm_based_prices) = 1
    /\ Len(usd_based_prices) = 1

HasUnexpected(ps) == \E i \in DOMAIN ps : ps[i].sell_asset \notin Groups

\* C6: a batch with a row whose sell_asset is neither XLM nor USD makes
\* add_prices_to_blockchain fail with the unexpected-sell_asset error, at
\* whatever position the row is, and before any effect: no CLI invocation,
\* no log row, no row marked.
C6_UnexpectedSellAssetFailsFirst ==
    /\ [](pc = "loop" => (result = NoResult /\ markOps = <<>> /\ inflight = 0))
    /\ [](error = ValueError => (result = NoResult /\ markOps = <<>> /\ inflight = 0))
    /\ [][ (pc = "loop" /\ fi = Len(fetched) /\ HasUnexpected(prices) /\ pc' # pc) =>
              /\ pc' = "idle"
              /\ error' = ValueError
              /\ prices_tbl' = prices_tbl
              /\ logs_tbl' = logs_tbl
              /\ calls' = calls
              /\ inflight' = 0
         ]_vars

\* the run failed on a batch whose offending row comes after a valid XLM row
C6_Witness ==
    /\ error = ValueError
    /\ pc = "idle"
    /\ Len(prices) = 2
    /\ prices[1].sell_asset = "XLM"
    /\ prices[2].sell_asset = "EUR"

\* C8: the timestamp submitted for a price row is that row's own timestamp
\* rounded up to the next multiple of 600: it is a multiple of 600 and it is
\* not before the row's timestamp.
C8_SubmitsRecordTimestampRoundedUp ==
    pc \in Submitted =>
        \A p \in Range(prices) :
            /\ p.normalized_timestamp = normalize_int(p.updated_at, RESOLUTION)
            /\ p.normalized_timestamp % RESOLUTION = 0
            /\ p.normalized_timestamp >= p.updated_at

NormalizeInit ==
    /\ npc = "input"
    /\ nt \in TsInputs
    /\ n1 = NoTs
    /\ n2 = NoTs
    /\ FeederIdle
    /\ WaitIdle
    /\ InvokeIdle

NormalizeOnce ==
    /\ npc = "input"
    /\ n1' = normalize_timestamp(nt, RESOLUTION)
    /\ npc' = "once"
    /\ UNCHANGED <<nt, n2, now, dbvars, fvars, cvars>>

NormalizeTwice ==
    /\ npc = "once"
    /\ n2' = normalize_timestamp(n1, RESOLUTION)
    /\ npc' = "twice"
    /\ UNCHANGED <<nt, n1, now, dbvars, fvars, cvars>>

NormalizeNext == NormalizeOnce \/ NormalizeTwice

NormalizeSpec == NormalizeInit /\ [][NormalizeNext]_vars

\* C7: for every non-negative integer timestamp t, normalize_timestamp(t, 600)
\* is the smallest multiple of 600 that is >= t (aligned, >= t, less than 600
\* above t), an aligned t is returned unchanged, and normalizing twice equals
\* normalizing once.
C7_SmallestMultipleAbove ==
    /\ npc \in {"once", "twice"} =>
        /\ n1.rem = 0
        /\ TsGeq(n1, nt, RESOLUTION)
        /\ TsDiff(n1, nt, RESOLUTION) < RESOLUTION
        /\ (nt.rem = 0 => n1 = nt)
    /\ npc = "twice" => n2 = n1

(***************************************************************************)
(* The poll loops of the example CLI: wait_tx (lines 110-117) and the two  *)
(* inline loops of deploy (lines 287-294 and 330-337).  Each loop asks     *)
(* the RPC server for the transaction, leaves on the first status other    *)
(* than NOT_FOUND and sleeps 3 seconds otherwise.                          *)
(***************************************************************************)
MaxPolls == 6       \* the poll and sleep counters stop counting here
SleepSeconds == 3

\* stellar_sdk.soroban.soroban_rpc.GetTransactionStatus
GetTransactionStatus == {"SUCCESS", "NOT_FOUND", "FAILED"}
TxHashes == {"hash_a", "hash_b"}
Loops == {"wait_tx", "deploy_upload", "deploy_create"}

Min(a, b) == IF a < b THEN a ELSE b

\* wait_tx(tx_hash) is called by send_tx, or deploy reaches its first loop
WaitInit ==
    /\ wloop \in {"wait_tx", "deploy_upload"}
    /\ wpc = "poll"
    /\ tx_hash \in TxHashes
    /\ asked = "none"
    /\ status = "none"
    /\ prior = FALSE
    /\ polls = 0
    /\ sleeps = 0
    /\ slept = 0
    /\ ret = "none"
    /\ FeederIdle
    /\ NormalizeIdle
    /\ InvokeIdle

\* `if get_transaction_data.status != GetTransactionStatus.NOT_FOUND: break`
\* after the n-th poll
ShouldBreakOnSuccess(st, n) == st = "SUCCESS"
ShouldBreakCapped(st, n) == st # "NOT_FOUND" \/ n >= 3
ShouldBreak(st, n) == st # "NOT_FOUND"

\* one get_transaction(tx_hash) and the test that follows it
Poll(st) ==
    /\ wpc = "poll"
    /\ asked' = tx_hash
    /\ prior' = (prior \/ (status \notin {"none", "NOT_FOUND"}))
    /\ status' = st
    /\ polls' = Min(polls + 1, MaxPolls)
    /\ IF ShouldBreak(st, polls + 1)
       THEN /\ wpc' = "returned"
            /\ ret' = st
       ELSE /\ wpc' = "sleep"
            /\ ret' = ret
    /\ UNCHANGED <<nvars, now, dbvars, fvars, ivars, wloop, tx_hash, sleeps, slept>>

\* the server does not know the transaction yet
PollNotFound == Poll("NOT_FOUND")

\* the server answers with the transaction's outcome
PollAnswered == \E st \in GetTransactionStatus \ {"NOT_FOUND"} : Poll(st)

\* time.sleep(3)
Sleep ==
    /\ wpc = "sleep"
    /\ sleeps' = Min(sleeps + 1, MaxPolls)
    /\ slept' = Min(slept + SleepSeconds, SleepSeconds * MaxPolls)
    /\ wpc' = "poll"
    /\ UNCHANGED <<nvars, now, dbvars, fvars, ivars, wloop, tx_hash, asked, status, prior,
                   polls, ret>>

\* deploy, lines 298-328: the upload succeeded, the create-contract
\* transaction is sent and the second loop starts
DeployCreate ==
    /\ wloop = "deploy_upload"
    /\ wpc = "returned"
    /\ ret = "SUCCESS"
    /\ wloop' = "deploy_create"
    /\ \E h \in TxHashes : tx_hash' = h
    /\ wpc' = "poll"
    /\ asked' = "none"
    /\ status' = "none"
    /\ prior' = FALSE
    /\ polls' = 0
    /\ sleeps' = 0
    /\ slept' = 0
    /\ ret' = "none"
    /\ UNCHANGED <<nvars, now, dbvars, fvars, ivars>>

\* deploy, line 307: `assert wasm_id` fails when the upload did not succeed
DeployAssertFails ==
    /\ wloop = "deploy_upload"
    /\ wpc = "returned"
    /\ ret # "SUCCESS"
    /\ wpc' = "AssertionError"
    /\ UNCHANGED <<nvars, now, dbvars, fvars, ivars, wloop, tx_hash, asked, status, prior,
                   polls, sleeps, slept, ret>>

WaitNext ==
    \/ PollNotFound
    \/ PollAnswered
    \/ Sleep
    \/ DeployCreate
    \/ DeployAssertFails

WaitSpec == WaitInit /\ [][WaitNext]_vars

\* the network eventually answers with a status other than NOT_FOUND, and a
\* sleeping or returned process goes on
FairWaitSpec ==
    /\ WaitSpec
    /\ SF_vars(PollAnswered)
    /\ WF_vars(Sleep)
    /\ WF_vars(DeployCreate)
    /\ WF_vars(DeployAssertFails)

Terminal == {"SUCCESS", "FAILED"}

\* C9: the loop polls again only after NOT_FOUND and returns the first polled
\* status that is not NOT_FOUND: the returned value is never NOT_FOUND, it is
\* SUCCESS or FAILED, and no sleep or poll follows an answer other than
\* NOT_FOUND.
C9_ReturnsFirstTerminalStatus ==
    /\ [](ret # "none" => (ret = status /\ ret # "NOT_FOUND" /\ ret \in Terminal))
    /\ [](~prior)
    /\ [](wpc = "sleep" => status = "NOT_FOUND")
    /\ [](wpc = "returned" => ret # "none")
    /\ [][ (status \in Terminal /\ wloop' = wloop) =>
              (polls' = polls /\ sleeps' = sleeps /\ slept' = slept /\ status' = status)
         ]_vars

\* wait_tx returned FAILED after polls that answered NOT_FOUND
C9_Witness ==
    /\ wloop = "wait_tx"
    /\ wpc = "returned"
    /\ ret = "FAILED"
    /\ polls >= 3
    /\ sleeps = polls - 1

\* C10: the loops have no cap on attempts: a poll answered NOT_FOUND is always
\* followed by a sleep and another poll, however many polls were made, so a
\* loop returns only on an answer other than NOT_FOUND; if the network
\* eventually gives such an answer, the loop eventually returns.
C10_NoCapAndTerminatesWhenAnswered ==
    /\ [](ret # "none" => status # "NOT_FOUND")
    /\ [](wpc \in {"returned", "AssertionError"} => status # "NOT_FOUND")
    /\ [][ (wpc = "poll" /\ wpc' # wpc /\ status' = "NOT_FOUND") =>
              (wpc' = "sleep" /\ ret' = "none") ]_vars
    /\ [][ wpc = "sleep" => (wpc' = "poll" /\ ret' = "none") ]_vars
    /\ \A l \in Loops :
          ((wloop = l /\ wpc \in {"poll", "sleep"}) ~> (wloop = l /\ wpc = "returned"))

\* the second loop of deploy is still polling after the counters are full
C10_Witness ==
    /\ wloop = "deploy_create"
    /\ wpc = "poll"
    /\ status = "NOT_FOUND"
    /\ polls = MaxPolls
    /\ sleeps = MaxPolls

(***************************************************************************)
(* invoke_and_output of the example CLI: the transaction is sent, wait_tx  *)
(* polls for its status, invoke_contract_function aborts unless the status *)
(* is SUCCESS, output_tx_data decodes and prints the return value.         *)
(***************************************************************************)

MaxKids == 2        \* a returned vector or map has at most this many entries

SendTransactionStatus == {"PENDING", "DUPLICATE", "TRY_AGAIN_LATER", "ERROR"}

\* the exit code of a process ended by `raise typer.Exit()`: the exception
\* is raised without a code, and its code defaults to 0
AbortExitCode == 0

\* the exit code of a Python process ended by an uncaught exception
UncaughtExitCode == 1

\* the types parse_sc_val returns a number for
NumberTypes == {"SCV_U32", "SCV_I32", "SCV_U64", "SCV_I64", "SCV_U128", "SCV_I128"}

\* the types of the values without entries; SCV_BYTES stands for the types
\* that neither output_tx_data nor parse_sc_val names
LeafTypes == NumberTypes \cup {"SCV_SYMBOL", "SCV_BOOL", "SCV_VOID", "SCV_ADDRESS", "SCV_BYTES"}

\* the type of a map entry's key
KeyTypes == {"SCV_SYMBOL", "SCV_U32"}

Val(t, ks, keys) == [type |-> t, kids |-> ks, keys |-> keys]

Leaves == { Val(t, <<>>, <<>>) : t \in LeafTypes }

\* the types of the values inside a vector or map: SCV_U32 and SCV_I128
\* stand for the six number types, which parse_sc_val treats alike
KidTypes == {"SCV_U32", "SCV_I128", "SCV_SYMBOL", "SCV_BOOL", "SCV_VOID", "SCV_ADDRESS", "SCV_BYTES"}

KidLeaves == { Val(t, <<>>, <<>>) : t \in KidTypes }

Vecs(S, n) == UNION { { Val("SCV_VEC", ks, <<>>) : ks \in [1..k -> S] } : k \in 0..n }

Maps(S, n) ==
    UNION { { Val("SCV_MAP", ks[1], ks[2]) : ks \in [1..k -> S] \X [1..k -> KeyTypes] }
            : k \in 0..n }

\* a vector or map of values without entries
Containers == Vecs(KidLeaves, MaxKids) \cup Maps(KidLeaves, MaxKids)

\* the vectors and maps that are themselves an entry of a vector or map
InnerContainers == Vecs(KidLeaves, 1) \cup Maps(KidLeaves, 1)

\* the return values: a leaf, a vector or map of leaves, or a vector or map
\* holding one vector or map
ScVals == Leaves \cup Containers \cup Vecs(InnerContainers, 1) \cup Maps(InnerContainers, 1)

NoException == "none"

RECURSIVE parse_sc_val(_)
RECURSIVE parse_sc_vec(_)
RECURSIVE parse_sc_map(_, _)

\* the exception parse_sc_val(sc_val) raises, or NoException when it returns
parse_sc_val(sc_val) ==
    IF sc_val.type \in NumberTypes THEN NoException
    ELSE IF sc_val.type = "SCV_MAP" THEN parse_sc_map(sc_val.kids, sc_val.keys)
    ELSE IF sc_val.type = "SCV_VEC" THEN parse_sc_vec(sc_val.kids)
    ELSE IF sc_val.type = "SCV_SYMBOL" THEN NoException
    ELSE "ValueError"

\* the values are parsed in order, the first exception ends the loop
parse_sc_vec(sc_vec) ==
    IF sc_vec = <<>> THEN NoException
    ELSE LET e == parse_sc_val(Head(sc_vec))
         IN  IF e # NoException THEN e ELSE parse_sc_vec(Tail(sc_vec))

\* `entry.key.sym.sc_symbol.decode()`: the sym of a key that is not a
\* symbol is None, and the attribute access on it raises
parse_sc_map(sc_map, keys) ==
    IF sc_map = <<>> THEN NoException
    ELSE IF Head(keys) # "SCV_SYMBOL" THEN "AttributeError"
    ELSE LET e == parse_sc_val(Head(sc_map))
         IN  IF e # NoException THEN e ELSE parse_sc_map(Tail(sc_map), Tail(keys))

Printed(line) == [line |-> line, exc |-> NoException]

Parsed(e) == [line |-> "value", exc |-> e]

\* output_tx_data with no else branch: a type it does not name is an error
output_tx_data_strict(res) ==
    IF res.type = "SCV_BOOL" THEN Printed("b")
    ELSE IF res.type = "SCV_VOID" THEN Printed("<void>")
    ELSE IF res.type = "SCV_MAP" THEN Parsed(parse_sc_map(res.kids, res.keys))
    ELSE IF res.type \in NumberTypes \cup {"SCV_SYMBOL"} THEN Parsed(parse_sc_val(res))
    ELSE IF res.type = "SCV_ADDRESS" THEN Printed("address")
    ELSE IF res.type = "SCV_VEC" THEN Parsed(parse_sc_vec(res.kids))
    ELSE Parsed("ValueError")

\* output_tx_data for a successful transaction: the line it prints for the
\* return value, and the exception it raises, if any
output_tx_data(res) ==
    IF res.type = "SCV_BOOL" THEN Printed("b")
    ELSE IF res.type = "SCV_VOID" THEN Printed("<void>")
    ELSE IF res.type = "SCV_MAP" THEN Parsed(parse_sc_map(res.kids, res.keys))
    ELSE IF res.type \in NumberTypes \cup {"SCV_SYMBOL"} THEN Parsed(parse_sc_val(res))
    ELSE IF res.type = "SCV_ADDRESS" THEN Printed("address")
    ELSE IF res.type = "SCV_VEC" THEN Parsed(parse_sc_vec(res.kids))
    ELSE Printed("Unexpected result type")

\* a command of the example CLI calls invoke_and_output
InvokeInit ==
    /\ ipc = "send"
    /\ result_val = NoVal
    /\ printed = <<>>
    /\ raised = NoException
    /\ exit_code = -1
    /\ WaitIdle
    /\ FeederIdle
    /\ NormalizeIdle

\* abort(msg): the message is printed and typer.Exit() raised
abort(msg) ==
    /\ printed' = Append(printed, msg)
    /\ raised' = raised
    /\ exit_code' = AbortExitCode
    /\ ipc' = "exited"

\* an exception nothing catches ends the process
Uncaught(e) ==
    /\ printed' = printed
    /\ raised' = e
    /\ exit_code' = UncaughtExitCode
    /\ ipc' = "exited"

\* send_tx: the server accepted the transaction and wait_tx starts
SendTxPending ==
    /\ ipc = "send"
    /\ ipc' = "wait"
    /\ wloop' = "wait_tx"
    /\ wpc' = "poll"
    /\ \E h \in TxHashes : tx_hash' = h
    /\ UNCHANGED <<nvars, now, dbvars, fvars, asked, status, prior, polls, sleeps,
                   slept, ret, result_val, printed, raised, exit_code>>

\* send_tx: `if send_transaction_data.status != SendTransactionStatus.PENDING:
\* raise RuntimeError`
SendTxRejected ==
    /\ ipc = "send"
    /\ \E st \in SendTransactionStatus \ {"PENDING"} : Uncaught("RuntimeError")
    /\ UNCHANGED <<nvars, now, dbvars, fvars, wvars, result_val>>

\* invoke_contract_function: `if tx_data.status != GetTransactionStatus.SUCCESS:
\* abort(f"Error: {tx_data}")`
InvokeAborts ==
    /\ ipc = "wait"
    /\ wpc = "returned"
    /\ ret # "SUCCESS"
    /\ abort(<<"Error", ret>>)
    /\ UNCHANGED <<nvars, now, dbvars, fvars, wvars, result_val>>

\* invoke_contract_function returns and invoke_and_output prints "Output:"
InvokeReturns ==
    /\ ipc = "wait"
    /\ wpc = "returned"
    /\ ret = "SUCCESS"
    /\ printed' = Append(printed, <<"Output:">>)
    /\ ipc' = "output"
    /\ UNCHANGED <<nvars, now, dbvars, fvars, wvars, result_val, raised, exit_code>>

\* output_tx_data(tx_data): the return value is read from the transaction's
\* meta and printed by its type
OutputTxData ==
    /\ ipc = "output"
    /\ IF ret = "SUCCESS"
       THEN \E v \in ScVals :
               /\ result_val' = v
               /\ LET out == output_tx_data(v)
                  IN  IF out.exc # NoException
                      THEN Uncaught(out.exc)
                      ELSE /\ printed' = Append(printed, <<out.line>>)
                           /\ ipc' = "tail"
                           /\ UNCHANGED <<raised, exit_code>>
       ELSE /\ abort(<<"Error", ret>>)
            /\ UNCHANGED result_val
    /\ UNCHANGED <<nvars, now, dbvars, fvars, wvars>>

\* invoke_and_output prints the transaction's address and "Success!", and
\* the process ends
InvokeTail ==
    /\ ipc = "tail"
    /\ printed' = printed \o << <<"Horizon tx:">>, <<"Success!">> >>
    /\ exit_code' = 0
    /\ ipc' = "exited"
    /\ UNCHANGED <<nvars, now, dbvars, fvars, wvars, result_val, raised>>

InvokeNext ==
    \/ SendTxPending
    \/ SendTxRejected
    \/ PollNotFound
    \/ PollAnswered
    \/ Sleep
    \/ InvokeAborts
    \/ InvokeReturns
    \/ OutputTxData
    \/ InvokeTail

InvokeSpec == InvokeInit /\ [][InvokeNext]_vars

\* the process reported a failure: it printed an error message
ReportedError == \E i \in 1..Len(printed) : printed[i][1] = "Error"

\* C11: when the status obtained after polling is not SUCCESS, the error is
\* printed with the status payload and the process exits with a non-zero exit
\* code; exit code 0 is produced only when no failure was reported.
C11_FailureExitsNonZero ==
    /\ (ipc = "exited" /\ ret \notin {"none", "SUCCESS"}) =>
           (printed[Len(printed)] = <<"Error", ret>> /\ exit_code # 0)
    /\ (ipc = "exited" /\ exit_code = 0) => ~ReportedError

\* the types output_tx_data names in a branch of its own
TopTypes == NumberTypes \cup {"SCV_BOOL", "SCV_VOID", "SCV_MAP", "SCV_SYMBOL", "SCV_ADDRESS", "SCV_VEC"}

\* the types parse_sc_val names
ParseTypes == NumberTypes \cup {"SCV_MAP", "SCV_VEC", "SCV_SYMBOL"}

\* the values nested inside a returned map or vector
Nested(v) == Range(v.kids) \cup UNION { Range(k.kids) : k \in Range(v.kids) }

\* a nested value has a type parse_sc_val does not name
NestedUnhandled(v) == \E k \in Nested(v) : k.type \notin ParseTypes

\* a returned or nested map has a key that is not a symbol
NonSymbolKey(v) ==
    \E c \in {v} \cup Nested(v) : \E i \in DOMAIN c.keys : c.keys[i] # "SCV_SYMBOL"

HasPrinted(line) == \E i \in 1..Len(printed) : printed[i] = <<line>>

\* the return value of a successful transaction has been decoded
Decoded == ret = "SUCCESS" /\ result_val # NoVal

\* invoke_and_output ran to its last statement
Completed ==
    /\ ipc = "exited"
    /\ raised = NoException
    /\ exit_code = 0
    /\ printed[Len(printed)] = <<"Success!">>

\* C12 as stated: for a SUCCESS transaction decoding never raises: when the
\* return value or a value nested inside a returned map or vector has a type
\* the decoder does not handle, "Unexpected result type" is printed and
\* invoke_and_output still runs to completion.
C12_DecodeNeverRaises ==
    Decoded =>
        /\ raised = NoException
        /\ (result_val.type \notin TopTypes \/ NestedUnhandled(result_val)) =>
               HasPrinted("Unexpected result type")
        /\ ipc = "exited" => Completed

\* C12, amended: for a SUCCESS transaction, a return value whose own type
\* output_tx_data does not handle is printed as "Unexpected result type"
\* without an exception, and invoke_and_output runs to completion; decoding
\* raises exactly when a value nested inside a returned map or vector has a
\* type parse_sc_val does not handle or a map key is not a symbol, and then
\* nothing more is printed and the process ends with the uncaught exception.
C12_OnlyNestedUnhandledRaises ==
    Decoded =>
        /\ result_val.type \notin TopTypes =>
               (raised = NoException /\ HasPrinted("Unexpected result type"))
        /\ raised # NoException <=>
               (NestedUnhandled(result_val) \/ NonSymbolKey(result_val))
        /\ (ipc = "exited" /\ raised = NoException) => Completed
        /\ raised # NoException =>
               /\ raised \in {"ValueError", "AttributeError"}
               /\ ipc = "exited"
               /\ exit_code = UncaughtExitCode
               /\ printed[Len(printed)] = <<"Output:">>

\* a return value of a type output_tx_data does not name was printed as
\* "Unexpected result type" and invoke_and_output ran to completion
C12_Witness ==
    /\ Decoded
    /\ result_val.type = "SCV_BYTES"
    /\ HasPrinted("Unexpected result type")
    /\ Completed

(***************************************************************************)
(* Further properties of the batch feeder                                  *)
(***************************************************************************)

\* the invocations of the current run that have returned
Invoked == { g \in Groups : result[g] # "none" }

\* C13: in one run, add_prices_to_blockchain issues exactly one CLI invocation
\* per non-empty group and none for an empty group, the XLM group addressed to
\* the XLM contract id and the USD group to the USD contract id, each carrying
\* its own group; the invocations run one after the other: an invocation
\* starts only when none is in flight and every earlier one has returned and
\* been logged, the XLM one before the USD one.
C13_OneSequentialInvocationPerGroup ==
    /\ [](inflight \in {0, 1})
    /\ [][ inflight' > inflight =>
              /\ inflight = 0
              /\ logs_tbl = calls
              /\ \E g \in Groups :
                    /\ pc = PcCall[g] /\ pc' = PcWait[g]
                    /\ GroupOf(g) # <<>>
                    /\ result[g] = "none"
                    /\ cmd'.arg = list_to_base64(GroupOf(g))
                    /\ cmd'.op = "add_prices_base64"
              /\ pc = "xlm" => cmd'.contract = TESTNET_CONTRACT_XLM
              /\ pc = "usd" => cmd'.contract = TESTNET_CONTRACT_USD
         ]_vars
    /\ [][ calls' # calls =>
              /\ Len(calls') = Len(calls) + 1
              /\ SubSeq(calls', 1, Len(calls)) = calls
              /\ calls'[Len(calls')].command = cmd
              /\ inflight = 1 /\ inflight' = 0
              /\ \E g \in Groups :
                    /\ pc = PcWait[g]
                    /\ result[g] = "none" /\ result'[g] # "none"
                    /\ \A h \in Groups \ {g} : result'[h] = result[h]
         ]_vars
    /\ [][ result' # result => (calls' # calls \/ result' = NoResult) ]_vars
    /\ [](pc \in {"usd", "usd_wait", "usd_log", "mark"} =>
              ("XLM" \in Invoked <=> xlm_based_prices # <<>>))
    /\ [](pc \in {"usd_wait", "usd_log"} =>
              (usd_based_prices # <<>> /\ ("USD" \in Invoked <=> pc = "usd_log")
               /\ (xlm_based_prices # <<>> =>
                      \E i \in DOMAIN logs_tbl :
                          logs_tbl[i].command.contract = TESTNET_CONTRACT_XLM)))
    /\ [](pc = "mark" =>
              \A g \in Groups : (g \in Invoked <=> GroupOf(g) # <<>>))
    /\ [](pc \in {"loop", "xlm"} => Invoked = {})

\* the USD invocation is in flight after the XLM invocation of the same run
\* returned and was logged
C13_Witness ==
    /\ pc = "usd_wait"
    /\ inflight = 1
    /\ result["XLM"] # "none"
    /\ cmd.contract = TESTNET_CONTRACT_USD
    /\ logs_tbl # <<>>
    /\ logs_tbl[Len(logs_tbl)].command.contract = TESTNET_CONTRACT_XLM

\* the list of prices a CLI invocation carried
PayloadOf(call) == call.command.arg[2][2]

\* the price of row r was an entry of the payload of an invocation
WasSubmitted(r) ==
    \E i \in DOMAIN calls :
        \E j \in DOMAIN PayloadOf(calls[i]) :
            /\ PayloadOf(calls[i])[j].price = r.price
            /\ PayloadOf(calls[i])[j].source = r.source
            /\ PayloadOf(calls[i])[j].asset = r.buy_asset

\* C14: a price row is marked added_to_blockchain = 1 only if its own price
\* was included in a submitted payload: rows dropped as duplicates of a
\* (source, symbol) pair, and rows of the pair inserted between the read and
\* the mark step, are not marked without having been submitted.  Stated for
\* the rows the query can select (active, asset_type other).
C14_MarkedOnlyIfSubmitted ==
    \A r \in Range(prices_tbl) :
        (r.status = "active" /\ r.asset_type = "other" /\ r.added_to_blockchain = 1)
            => WasSubmitted(r)

\* the time gate, over every clock value up to the bucket after the last one:
\* the row is kept exactly at the multiples of RESOLUTION
GateIsAlignment ==
    \A t \in 0..((MaxBuckets + 1) * RESOLUTION) :
        KeepRow(<<>>, t) <=> (t % RESOLUTION = 0)

\* C15: read_prices_from_db puts a row into the batch only when the clock
\* value read for that row is a multiple of RESOLUTION: the gate
\* normalize_timestamp(now) <= now holds exactly when now mod 600 = 0, so the
\* timestamp of a batch entry, and the one submitted for it, equals the clock
\* value read for the row; a run in which no clock value read is aligned has
\* an empty batch, makes no submission, writes no log entry and marks nothing.
C15_KeptOnlyAtAlignedClock ==
    /\ [](GateIsAlignment)
    /\ [][ Len(prices') > Len(prices) =>
              /\ pc = "loop" /\ fi' = fi + 1
              /\ now % RESOLUTION = 0
              /\ prices' = Append(prices, prices'[Len(prices')])
              /\ prices'[Len(prices')].id = fetched[fi + 1].id
              /\ prices'[Len(prices')].normalized_timestamp = now
         ]_vars
    /\ [][ (pc = "loop" /\ fi' = fi + 1 /\ now % RESOLUTION # 0) => prices' = prices ]_vars
    /\ [][ (pc = "loop" /\ fi' = fi + 1 /\ now % RESOLUTION = 0
            /\ ~SeenBefore(fetched[fi + 1], SetDefault(symbols, fetched[fi + 1].source)))
              => Len(prices') = Len(prices) + 1 ]_vars
    /\ [](\A i \in DOMAIN prices : prices[i].normalized_timestamp % RESOLUTION = 0)
    /\ [](pc \in AfterGrouping =>
              /\ prices # <<>>
              /\ \A g \in Groups : \A i \in DOMAIN GroupOf(g) :
                    \E j \in DOMAIN prices :
                        /\ GroupOf(g)[i].price = prices[j].price
                        /\ GroupOf(g)[i].timestamp = prices[j].normalized_timestamp)
    /\ [](pc \in {"xlm_wait", "usd_wait"} =>
              \A i \in DOMAIN cmd.arg[2][2] :
                  \E j \in DOMAIN prices :
                      /\ cmd.arg[2][2][i].price = prices[j].price
                      /\ cmd.arg[2][2][i].timestamp = prices[j].normalized_timestamp)
    /\ [][ (pc = "loop" /\ pc' # "loop" /\ prices = <<>>) =>
              (pc' = "idle" /\ UNCHANGED <<dbvars, calls, inflight, cmd, result, markOps>>)
         ]_vars
    /\ [](prices = <<>> => (pc \in {"idle", "loop"} /\ inflight = 0
                            /\ result = NoResult /\ markOps = <<>>))

\* a run read rows while the clock was not aligned and ended with an empty
\* batch: nothing was submitted, logged or marked
C15_Witness ==
    /\ pc = "idle"
    /\ runs >= 1
    /\ fetched # <<>>
    /\ fi = Len(fetched)
    /\ prices = <<>>
    /\ now % RESOLUTION # 0
    /\ calls = <<>>
    /\ logs_tbl = <<>>
    /\ \A r \in Range(prices_tbl) : r.added_to_blockchain = 0

====
